---- MODULE Spec2Model ----
(***************************************************************************)
(* State-machine model of the AdjacencyCore extension type of             *)
(* prescaledfastadj/core.c: the operator object, the fastsum plan it      *)
(* owns, and the handlers init / dealloc / points getter and setter /     *)
(* apply / normalized_eigs.  The NFFT fastsum engine and the ARPACK       *)
(* solver are external libraries; they appear here only through the calls *)
(* the core makes on them.  Real numbers are modelled by integers.        *)
(***************************************************************************)
EXTENDS Integers, Sequences, FiniteSets, TLC

\* ------------------------------------------------------------ bounds
\* Largest number of rows of a table or entries of a vector handed in.
MaxRows == 2
\* Largest number of "apply operator" requests the solver makes in one call.
MaxMatVec == 2

\* ------------------------------------------------------------ values
RECURSIVE SumTo(_, _)
SumTo(g, k) == IF k = 0 THEN 0 ELSE g[k] + SumTo(g, k - 1)

RECURSIVE Product(_)
Product(shape) == IF shape = <<>> THEN 1 ELSE Head(shape) * Product(Tail(shape))

\* Python objects stored in an array: floats, ints, and strings.
PyFloat(v) == [t |-> "float", v |-> v]
PyLong(v)  == [t |-> "int", v |-> v]
PyStr      == [t |-> "str", v |-> 0]
Items == {PyFloat(-1), PyLong(2), PyStr}

\* Arguments of the Python level: None, an object PyArray_Converter
\* rejects, or an array with a shape and row-major data.
PyNone       == [kind |-> "none", shape |-> <<>>, data |-> <<>>]
PyBadObject  == [kind |-> "object", shape |-> <<>>, data |-> <<>>]
PyArray(shape, data) == [kind |-> "array", shape |-> shape, data |-> data]

PyArray_Converter(arg) == arg.kind = "array"
PyArray_NDIM(a) == Len(a.shape)
PyArray_DIM(a, k) == a.shape[k + 1]
PyArray_GETITEM1(a, i) == a.data[i + 1]
PyArray_GETITEM2(a, i, j) == a.data[i * PyArray_DIM(a, 1) + j + 1]

\* PyFloat_AsDouble: the value of a float or an int; -1.0 with the error
\* indicator set for anything else.
PyFloat_AsDouble(item) ==
    [val |-> IF item.t \in {"float", "int"} THEN item.v ELSE -1,
     err |-> item.t \notin {"float", "int"}]

CMPLX(re, im) == <<re, im>>
CREAL(z) == z[1]

ArraysOver(shape, items) == {PyArray(shape, data) : data \in [1..Product(shape) -> items]}
ArraysOfShape(shape) == ArraysOver(shape, Items)

NULL == [kind |-> "NULL", shape |-> <<>>, data |-> <<>>]
PyInt(rc) == [kind |-> "int", shape |-> <<>>, data |-> <<rc>>]
\* A call that never returns: it trapped, or it loops for ever.
NoReturn(why) == [kind |-> why, shape |-> <<>>, data |-> <<>>]
PyDoubleArray(shape, vals) ==
    PyArray(shape, [k \in 1..Len(vals) |-> PyFloat(vals[k])])

\* The Python error indicator.
NoError == [type |-> "none", msg |-> "", code |-> 0]
PyErr(type, msg) == [type |-> type, msg |-> msg, code |-> 0]
PyErrCode(type, msg, code) == [type |-> type, msg |-> msg, code |-> code]

\* ------------------------------------------------------------ state
VARIABLES
    self,   \* the AdjacencyCoreObject
    plan,   \* the fastsum_plan self->fastsum points to
    heap,   \* what the engine holds: plans allocated and freed, misuse seen
    pc,     \* where the object's single caller stands
    res,    \* the operation that returned last: its input, error, result, calls
    loc     \* the locals of a normalized_eigs call in progress

vars == <<self, plan, heap, pc, res, loc>>

\* tp_alloc hands out zeroed memory.
NewObject ==
    [kernel |-> 0, d |-> 0, sigma |-> 0, N |-> 0, p |-> 0, m |-> 0, eps |-> 0,
     NN |-> 0, diagonal |-> 0, n |-> 0, fastsum |-> FALSE]

\* No plan: nothing allocated, bound or precomputed.
NoPlan ==
    [d |-> 0, kern |-> "none", src |-> 0, tgt |-> 0, pre |-> FALSE,
     x |-> <<>>, y |-> <<>>, alpha |-> <<>>, f |-> <<>>]

NewHeap == [allocs |-> 0, frees |-> 0, faults |-> {}]

\* A handler works on the bundle of the object, its plan and the heap, and
\* leaves the error it raised and the engine and solver calls it made.
\* The locals of normalized_eigs; bufs names the buffers malloc'ed and not
\* yet freed.
NoLocals ==
    [nev |-> 0, ncv |-> 0, maxiter |-> 0, rvecs |-> FALSE, ido |-> 0, info |-> 0,
     matvecs |-> 0, d_invsqrt |-> <<>>, workd_in |-> <<>>, workd_out |-> <<>>,
     bufs |-> {}]

Bundle(o, pl, h, l) ==
    [self |-> o, plan |-> pl, heap |-> h, loc |-> l,
     calls |-> <<>>, infos |-> <<>>, mem |-> <<>>, err |-> NoError, ret |-> NULL]

Call(s, name) == [s EXCEPT !.calls = Append(@, name)]
\* A call of the solver, and the status it reports.
SolverCall(s, name, info) ==
    [s EXCEPT !.calls = Append(@, name), !.infos = Append(@, info), !.loc.info = info]
\* The C library's malloc and free of the buffer named b, each noted in mem.
malloc(s, b) ==
    [s EXCEPT !.loc.bufs = @ \cup {b}, !.mem = Append(@, <<"malloc", b>>)]
free(s, b) ==
    [s EXCEPT !.loc.bufs = @ \ {b}, !.mem = Append(@, <<"free", b>>)]
Fault(s, cond, what) == IF cond THEN [s EXCEPT !.heap.faults = @ \cup {what}] ELSE s
Raise(s, e) == [s EXCEPT !.err = e]
Return(s, v) == [s EXCEPT !.ret = v]

\* ------------------------------------------------------------ engine
\* The fastsum library as the core uses it: which resources each call
\* acquires and releases, and what a transform computes.
nfft_malloc(s) ==
    [Call(s, "nfft_malloc") EXCEPT !.heap.allocs = @ + 1, !.plan = NoPlan]

nfft_free(s) ==
    LET s1 == Fault(Fault(Call(s, "nfft_free"),
                          s.heap.allocs - s.heap.frees < 1, "plan freed twice"),
                    s.plan.src # 0 \/ s.plan.tgt # 0 \/ s.plan.kern # "none",
                    "plan freed with a binding live")
    IN  [s1 EXCEPT !.heap.frees = @ + 1]

fastsum_init_guru_kernel(s, dd, kernfn) ==
    [Call(s, "fastsum_init_guru_kernel") EXCEPT !.plan.d = dd, !.plan.kern = kernfn]

fastsum_finalize_kernel(s) ==
    LET s1 == Fault(Call(s, "fastsum_finalize_kernel"),
                    s.plan.kern = "none", "kernel released while unbound")
    IN  [s1 EXCEPT !.plan.kern = "none"]

\* Node storage comes from malloc: its content g is whatever was there.
fastsum_init_guru_source_nodes(s, nn, g) ==
    LET s1 == Fault(Call(s, "fastsum_init_guru_source_nodes"),
                    s.plan.src # 0, "source nodes bound twice")
    IN  [s1 EXCEPT !.plan.src = nn, !.plan.pre = FALSE,
                   !.plan.x = [k \in 1..(nn * s.plan.d) |-> g],
                   !.plan.alpha = [k \in 1..nn |-> CMPLX(g, g)]]

fastsum_init_guru_target_nodes(s, nn, g) ==
    LET s1 == Fault(Call(s, "fastsum_init_guru_target_nodes"),
                    s.plan.tgt # 0, "target nodes bound twice")
    IN  [s1 EXCEPT !.plan.tgt = nn, !.plan.pre = FALSE,
                   !.plan.y = [k \in 1..(nn * s.plan.d) |-> g],
                   !.plan.f = [k \in 1..nn |-> CMPLX(g, g)]]

fastsum_finalize_source_nodes(s) ==
    LET s1 == Fault(Call(s, "fastsum_finalize_source_nodes"),
                    s.plan.src = 0, "source nodes released while unbound")
    IN  [s1 EXCEPT !.plan.src = 0, !.plan.pre = FALSE]

fastsum_finalize_target_nodes(s) ==
    LET s1 == Fault(Call(s, "fastsum_finalize_target_nodes"),
                    s.plan.tgt = 0, "target nodes released while unbound")
    IN  [s1 EXCEPT !.plan.tgt = 0, !.plan.pre = FALSE]

fastsum_precompute(s) ==
    LET s1 == Fault(Call(s, "fastsum_precompute"),
                    s.plan.src = 0 \/ s.plan.tgt = 0, "precompute without nodes")
    IN  [s1 EXCEPT !.plan.pre = TRUE]

\* Radial kernels rounded to integers: 1 at distance 0 for the Gaussian and
\* the Laplacian RBF kernel, 0 for the squared-Gaussian one, 0 far away.
KernelValue(kernfn, r2) ==
    IF r2 = 0 /\ kernfn \in {"gaussian", "laplacian_rbf"} THEN 1 ELSE 0

Dist2(pl, i, j) ==
    SumTo([k \in 1..pl.d |->
              (pl.y[(i - 1) * pl.d + k] - pl.x[(j - 1) * pl.d + k])
              * (pl.y[(i - 1) * pl.d + k] - pl.x[(j - 1) * pl.d + k])], pl.d)

KernelSum(pl, i) ==
    SumTo([j \in 1..pl.src |->
              CREAL(pl.alpha[j]) * KernelValue(pl.kern, Dist2(pl, i, j))], pl.src)

\* The brute-force sum, and the approximate one: off by one in the real
\* part and with a spurious imaginary part.
fastsum_exact(s) ==
    LET s1 == Fault(Call(s, "fastsum_exact"),
                    s.plan.src = 0 \/ s.plan.tgt = 0, "transform without nodes")
    IN  [s1 EXCEPT !.plan.f = [i \in 1..s.plan.tgt |-> CMPLX(KernelSum(s.plan, i), 0)]]

fastsum_trafo(s) ==
    LET s1 == Fault(Call(s, "fastsum_trafo"),
                    ~s.plan.pre, "transform without precomputation")
    IN  [s1 EXCEPT !.plan.f = [i \in 1..s.plan.tgt |-> CMPLX(KernelSum(s.plan, i) + 1, 1)]]

\* ------------------------------------------------------------ core
check_fastsum(s) == s.self.fastsum

\* remove_points that releases the nodes and leaves n as it was.
remove_points_keeps_n(s) ==
    IF s.self.n # 0
    THEN LET s1 == fastsum_finalize_target_nodes(s)
             s2 == fastsum_finalize_source_nodes(s1)
         IN  [s2 EXCEPT !.plan.x = <<>>, !.plan.y = <<>>,
                        !.plan.alpha = <<>>, !.plan.f = <<>>]
    ELSE s

remove_points(s) ==
    IF s.self.n # 0
    THEN LET s1 == fastsum_finalize_target_nodes(s)
             s2 == fastsum_finalize_source_nodes(s1)
         IN  [s2 EXCEPT !.plan.x = <<>>, !.plan.y = <<>>,
                        !.plan.alpha = <<>>, !.plan.f = <<>>, !.self.n = 0]
    ELSE s

\* dealloc that forgets the nodes.
AdjacencyCore_dealloc_keeps_nodes(s) ==
    IF s.self.fastsum
    THEN LET s2 == fastsum_finalize_kernel(s)
             s3 == nfft_free(s2)
         IN  [s3 EXCEPT !.self.fastsum = FALSE]
    ELSE s

AdjacencyCore_dealloc(s) ==
    IF s.self.fastsum
    THEN LET s1 == remove_points(s)
             s2 == fastsum_finalize_kernel(s1)
             s3 == nfft_free(s2)
         IN  [s3 EXCEPT !.self.fastsum = FALSE]
    ELSE s

\* The fields of the object are C ints of 32 bits.
INT_MAX == 2147483647
INT_MIN == -INT_MAX - 1
IntHalf == 1073741824

\* Signed overflow is undefined: the product wraps around, or the build
\* traps on it.
IntOverflow == {"wrap", "trap"}

\* 2*x in int arithmetic, and whether it trapped.
IntTwice(x, ub) ==
    IF x >= -IntHalf /\ x < IntHalf THEN [v |-> 2 * x, trap |-> FALSE]
    ELSE IF ub = "trap" THEN [v |-> 0, trap |-> TRUE]
    ELSE IF x >= IntHalf THEN [v |-> (x - IntHalf) * 2 + INT_MIN, trap |-> FALSE]
    ELSE [v |-> ((x + IntHalf) * 2 + INT_MAX) + 1, trap |-> FALSE]

\* The loop of init that derives NN from N, strict in its bound.
RECURSIVE DeriveNN_strict(_, _, _)
DeriveNN_strict(N, NN, ub) ==
    LET twoN == IntTwice(N, ub)
        next == IntTwice(NN, ub)
    IN  IF twoN.trap THEN [NN |-> NN, status |-> "trapped"]
        ELSE IF ~(twoN.v >= NN) THEN [NN |-> NN, status |-> "done"]
        ELSE IF next.trap THEN [NN |-> NN, status |-> "trapped"]
        ELSE IF next.v = NN THEN [NN |-> NN, status |-> "loops"]
        ELSE DeriveNN_strict(N, next.v, ub)

\* The loop of init that derives NN from N: while (2*N > NN) NN *= 2.
\* A turn that leaves NN as it was repeats for ever.
RECURSIVE DeriveNN(_, _, _)
DeriveNN(N, NN, ub) ==
    LET twoN == IntTwice(N, ub)
        next == IntTwice(NN, ub)
    IN  IF twoN.trap THEN [NN |-> NN, status |-> "trapped"]
        ELSE IF ~(twoN.v > NN) THEN [NN |-> NN, status |-> "done"]
        ELSE IF next.trap THEN [NN |-> NN, status |-> "trapped"]
        ELSE IF next.v = NN THEN [NN |-> NN, status |-> "loops"]
        ELSE DeriveNN(N, next.v, ub)

\* The kernel function init hands to the engine for a selector.
underlyingKernel(kernel) ==
    IF kernel = 1 THEN "gaussian"
    ELSE IF kernel = 2 THEN "xx_gaussian"
    ELSE IF kernel = 3 THEN "laplacian_rbf"
    ELSE "gaussian"

\* a: the arguments; a.ok says whether PyArg_ParseTuple accepts them, and
\* a.NN = 0 stands for NN left out.
\* ub: what the build makes of a signed overflow.  An init that traps or
\* loops for ever does not return.
AdjacencyCore_init(s, a, ub) ==
    IF ~a.ok
    THEN Return(Raise(s, PyErr("TypeError", "bad arguments")), PyInt(-1))
    ELSE LET s1 == [s EXCEPT !.self.kernel = a.kernel, !.self.d = a.d,
                             !.self.sigma = a.sigma, !.self.N = a.N,
                             !.self.p = a.p, !.self.m = a.m,
                             !.self.eps = a.eps,
                             !.self.NN = IF a.NN = 0 THEN @ ELSE a.NN]
             nn == IF s1.self.NN = 0
                   THEN DeriveNN(s1.self.N, 2, ub)
                   ELSE [NN |-> s1.self.NN, status |-> "done"]
             s2 == [s1 EXCEPT !.self.NN = nn.NN, !.self.diagonal = 0]
             s3 == [nfft_malloc(s2) EXCEPT !.self.fastsum = TRUE]
             s4 == fastsum_init_guru_kernel(s3, s3.self.d, underlyingKernel(s3.self.kernel))
         IN  IF nn.status # "done"
             THEN Return([s1 EXCEPT !.self.NN = nn.NN], NoReturn(nn.status))
             ELSE Return([s4 EXCEPT !.plan.x = <<>>, !.plan.y = <<>>,
                                    !.plan.alpha = <<>>, !.plan.f = <<>>,
                                    !.self.n = 0], PyInt(0))

AdjacencyCore_getpoints(s) ==
    IF ~check_fastsum(s)
    THEN Return(Raise(s, PyErr("RuntimeError", "Invalid NFFT fastsum object")), NULL)
    ELSE IF s.self.n = 0
    THEN Return(s, PyNone)
    ELSE Return(s, PyDoubleArray(<<s.self.n, s.self.d>>,
                                 [k \in 1..(s.self.n * s.self.d) |-> s.plan.x[k]]))

\* The copy loop storing the table column by column.
points_copy_transposed(array, nn, dd) ==
    [k \in 1..(nn * dd) |->
        PyFloat_AsDouble(PyArray_GETITEM2(array, (k - 1) % nn, (k - 1) \div nn)).val]

\* The copy loop of setpoints: entry (i, j) of the table, converted, goes to
\* place i*d + j of the node array.
points_copy(array, nn, dd) ==
    [k \in 1..(nn * dd) |->
        PyFloat_AsDouble(PyArray_GETITEM2(array, (k - 1) \div dd, (k - 1) % dd)).val]

points_copy_failed(array, nn, dd) ==
    \E i \in 0..(nn - 1), j \in 0..(dd - 1) :
        PyFloat_AsDouble(PyArray_GETITEM2(array, i, j)).err

\* The failure path that leaves the nodes bound.
points_items_error_keeps(s) ==
    Return(Raise(s, PyErr("TypeError", "AdjacencyCore.points items must be floating point numbers")),
           PyInt(-1))

\* setpoints after a conversion of an entry failed.
points_items_error(s) ==
    Return(Raise(remove_points(s),
                 PyErr("TypeError", "AdjacencyCore.points items must be floating point numbers")),
           PyInt(-1))

\* setpoints that leaves the precomputation out.
points_bind_no_precompute(s, array, g) ==
    LET nn == PyArray_DIM(array, 0)
        dd == s.self.d
    IN  IF nn > 0
        THEN LET s1 == [s EXCEPT !.self.n = nn]
                 s2 == fastsum_init_guru_source_nodes(s1, nn, g)
                 s3 == fastsum_init_guru_target_nodes(s2, nn, g)
                 s4 == [s3 EXCEPT !.plan.x = points_copy(array, nn, dd),
                                  !.plan.y = points_copy(array, nn, dd)]
             IN  IF points_copy_failed(array, nn, dd)
                 THEN points_items_error(s4)
                 ELSE Return(s4, PyInt(0))
        ELSE Return(s, PyInt(0))

\* setpoints that binds nodes for a table without rows too.
points_bind_empty(s, array, g) ==
    LET nn == PyArray_DIM(array, 0)
        dd == s.self.d
        s1 == [s EXCEPT !.self.n = nn]
        s2 == fastsum_init_guru_source_nodes(s1, nn, g)
        s3 == fastsum_init_guru_target_nodes(s2, nn, g)
        s4 == [s3 EXCEPT !.plan.x = points_copy(array, nn, dd),
                         !.plan.y = points_copy(array, nn, dd)]
    IN  IF points_copy_failed(array, nn, dd)
        THEN points_items_error(s4)
        ELSE Return(fastsum_precompute(s4), PyInt(0))

\* setpoints once the table has the right shape.
points_bind(s, array, g) ==
    LET nn == PyArray_DIM(array, 0)
        dd == s.self.d
    IN  IF nn > 0
        THEN LET s1 == [s EXCEPT !.self.n = nn]
                 s2 == fastsum_init_guru_source_nodes(s1, nn, g)
                 s3 == fastsum_init_guru_target_nodes(s2, nn, g)
                 s4 == [s3 EXCEPT !.plan.x = points_copy(array, nn, dd),
                                  !.plan.y = points_copy(array, nn, dd)]
             IN  IF points_copy_failed(array, nn, dd)
                 THEN points_items_error(s4)
                 ELSE Return(fastsum_precompute(s4), PyInt(0))
        ELSE Return(s, PyInt(0))

points_shape_error(s) ==
    Return(Raise(s, PyErr("TypeError", "AdjacencyCore.points must be a 2D numpy array with d columns")),
           PyInt(-1))

\* setpoints that binds the new nodes over the old ones.
AdjacencyCore_setpoints_keeps_binding(s, arg, g) ==
    IF ~check_fastsum(s)
    THEN Return(Raise(s, PyErr("RuntimeError", "Invalid NFFT fastsum object")), PyInt(-1))
    ELSE IF arg = PyNone
    THEN Return(remove_points(s), PyInt(0))
    ELSE IF ~PyArray_Converter(arg)
    THEN points_shape_error(remove_points(s))
    ELSE IF PyArray_NDIM(arg) # 2 \/ PyArray_DIM(arg, 1) # s.self.d
    THEN points_shape_error(remove_points(s))
    ELSE points_bind(s, arg, g)

\* setpoints that returns on None before it releases the old points.
AdjacencyCore_setpoints_none_first(s, arg, g) ==
    IF ~check_fastsum(s)
    THEN Return(Raise(s, PyErr("RuntimeError", "Invalid NFFT fastsum object")), PyInt(-1))
    ELSE IF arg = PyNone
    THEN Return(s, PyInt(0))
    ELSE LET s1 == remove_points(s)
         IN  IF ~PyArray_Converter(arg)
             THEN points_shape_error(s1)
             ELSE IF PyArray_NDIM(arg) # 2 \/ PyArray_DIM(arg, 1) # s1.self.d
             THEN points_shape_error(s1)
             ELSE points_bind(s1, arg, g)

AdjacencyCore_setpoints(s, arg, g) ==
    IF ~check_fastsum(s)
    THEN Return(Raise(s, PyErr("RuntimeError", "Invalid NFFT fastsum object")), PyInt(-1))
    ELSE LET s1 == remove_points(s)
         IN  IF arg = PyNone
             THEN Return(s1, PyInt(0))
             ELSE IF ~PyArray_Converter(arg)
             THEN points_shape_error(s1)
             ELSE IF PyArray_NDIM(arg) # 2 \/ PyArray_DIM(arg, 1) # s1.self.d
             THEN points_shape_error(s1)
             ELSE points_bind(s1, arg, g)

\* apply without points as a silent no-op.
apply_no_points_silent(s) == Return(s, PyNone)

apply_no_points(s) ==
    Return(Raise(s, PyErr("RuntimeError",
                          "AdjacencyCore.points must be given before calling AdjacencyCore.apply")),
           NULL)

\* The loop of apply stopping one entry short.
apply_load_short(s, array) ==
    [s EXCEPT !.plan.alpha =
        [i \in 1..s.self.n |->
            IF i < s.self.n
            THEN CMPLX(PyFloat_AsDouble(PyArray_GETITEM1(array, i - 1)).val, 0)
            ELSE s.plan.alpha[i]]]

\* The loop of apply that loads the weights into the plan.
apply_load(s, array) ==
    [s EXCEPT !.plan.alpha =
        [i \in 1..s.self.n |-> CMPLX(PyFloat_AsDouble(PyArray_GETITEM1(array, i - 1)).val, 0)]]

apply_load_failed(s, array) ==
    \E i \in 0..(s.self.n - 1) : PyFloat_AsDouble(PyArray_GETITEM1(array, i)).err

apply_transform(s, exact) ==
    IF exact THEN fastsum_exact(s) ELSE fastsum_trafo(s)

\* The array apply returns with the squared-Gaussian branch corrected like
\* the Gaussian one.
apply_result_one_formula(s) ==
    PyDoubleArray(<<s.self.n>>,
        [i \in 1..s.self.n |->
            CREAL(s.plan.f[i]) + (s.self.diagonal - 1) * CREAL(s.plan.alpha[i])])

\* The array apply returns: the real part of each sum plus the correction
\* for the diagonal, by kernel selector.
apply_result(s) ==
    LET k == s.self.kernel
        f == s.plan.f
        alpha == s.plan.alpha
        diagonal == s.self.diagonal
    IN  PyDoubleArray(<<s.self.n>>,
            [i \in 1..s.self.n |->
                IF k = 1 THEN CREAL(f[i]) + (diagonal - 1) * CREAL(alpha[i])
                ELSE IF k = 2 THEN CREAL(f[i]) + diagonal * CREAL(alpha[i])
                ELSE IF k = 3 THEN CREAL(f[i]) + (diagonal - 1) * CREAL(alpha[i])
                ELSE CREAL(f[i]) + (diagonal - 1) * CREAL(alpha[i])])

\* The shape error of apply that also drops the points.
apply_shape_error_clears(s) ==
    Return(Raise(remove_points(s),
                 PyErr("ValueError",
                       "First input to AdjacencyCore.apply must be a 1D numpy array with n entries")),
           NULL)

apply_shape_error(s) ==
    Return(Raise(s, PyErr("ValueError",
                          "First input to AdjacencyCore.apply must be a 1D numpy array with n entries")),
           NULL)

apply_weights(s, array, exact) ==
    LET s1 == apply_load(s, array)
    IN  IF apply_load_failed(s, array)
        THEN Return(Raise(s1, PyErr("TypeError",
                                    "AdjacencyCore.apply requires a vector of floating point numbers")),
                    NULL)
        ELSE LET s2 == apply_transform(s1, exact)
             IN  Return(s2, apply_result(s2))

AdjacencyCore_apply(s, arg, exact) ==
    IF ~check_fastsum(s)
    THEN Return(Raise(s, PyErr("RuntimeError", "Invalid NFFT fastsum object")), NULL)
    ELSE IF s.self.n = 0
    THEN apply_no_points(s)
    ELSE IF ~PyArray_Converter(arg)
    THEN Return(Raise(s, PyErr("TypeError", "Invalid input to AdjacencyCore.apply")), NULL)
    ELSE IF PyArray_NDIM(arg) # 1 \/ PyArray_DIM(arg, 0) # s.self.n
    THEN apply_shape_error(s)
    ELSE apply_weights(s, arg, exact)

\* ------------------------------------------------------------ eigensolver
\* ARPACK as the core uses it.  dsaupd rejects dimensions outside
\* 0 < nev < ncv <= n with info -3 before it asks for anything.
dsaupd_accepts(nn, nev, ncv) == nn > 0 /\ nev > 0 /\ nev < ncv /\ ncv <= nn
DsaupdRejected == -3
DsaupdInfos == {-9, 0, 1}
DseupdInfos == {-14, 0}
IdoRequests == {-1, 1}
IdoDone == 99

\* The Ritz values and the basis dseupd leaves in d and v.
dseupd_values(nev) == [j \in 1..nev |-> j + 1]
dseupd_vectors(nn, ncv) == [k \in 1..(nn * ncv) |-> k]

\* 1/sqrt(x) in sixtieths, rounded down: the largest q with q*q*x <= 60*60;
\* 0 stands for the inf and NaN of x <= 0.
InvSqrt(x) ==
    IF x <= 0 THEN 0
    ELSE CHOOSE q \in 0..60 : q * q * x <= 3600 /\ (q + 1) * (q + 1) * x > 3600

default_ncv(nev, nn) ==
    IF nev < 10 THEN 20
    ELSE IF 2 * nev >= nn THEN nn
    ELSE 2 * nev + 1

eigs_no_points(s) ==
    Return(Raise(s, PyErr("RuntimeError",
                          "AdjacencyCore.points must be given before calling AdjacencyCore.eigs")),
           NULL)

\* The degree computation: all-ones weights, one approximate transform.
eigs_degrees(s) ==
    LET s1 == [malloc(s, "d_invsqrt") EXCEPT
                  !.plan.alpha = [i \in 1..s.self.n |-> CMPLX(1, 0)]]
        s2 == fastsum_trafo(s1)
        k  == s2.self.kernel
    IN  [s2 EXCEPT !.loc.d_invsqrt =
            [i \in 1..s.self.n |->
                IF k = 1 THEN InvSqrt(CREAL(s2.plan.f[i]) + s2.self.diagonal - 1)
                ELSE IF k = 2 THEN InvSqrt(CREAL(s2.plan.f[i]) + s2.self.diagonal)
                ELSE IF k = 3 THEN InvSqrt(CREAL(s2.plan.f[i]) + s2.self.diagonal - 1)
                ELSE InvSqrt(CREAL(s2.plan.f[i]) + s2.self.diagonal - 1)]]

\* normalized_eigs up to the first call of the solver.
\* a: the arguments; a.ok says whether they parse, a.ncv = 0 and
\* a.maxiter = 0 stand for the defaults.
eigs_begin(s, a) ==
    IF ~check_fastsum(s)
    THEN Return(Raise(s, PyErr("RuntimeError", "Invalid NFFT fastsum object")), NULL)
    ELSE IF s.self.n = 0
    THEN eigs_no_points(s)
    ELSE IF ~a.ok
    THEN Return(Raise(s, PyErr("TypeError", "Invalid input to AdjacencyCore.eigs")), NULL)
    ELSE LET s1 == [s EXCEPT !.loc.nev = a.nev, !.loc.rvecs = a.rvecs,
                             !.loc.ncv = IF a.ncv <= 0
                                         THEN default_ncv(a.nev, s.self.n) ELSE a.ncv,
                             !.loc.maxiter = IF a.maxiter <= 0 THEN 300 ELSE a.maxiter]
             s2 == eigs_degrees(s1)
             s3 == [s2 EXCEPT !.loc.ido = 0, !.loc.info = 0]
         IN  malloc(malloc(malloc(malloc(malloc(malloc(s3,
                 "resid"), "v"), "workd"), "workl"), "d"), "select")

\* The request answered with the correction of the Gaussian kernel for
\* every selector.
eigs_matvec_one_formula(s, ido, vin) ==
    LET s1 == [SolverCall(s, "dsaupd_c", 0) EXCEPT
                  !.loc.ido = ido, !.loc.workd_in = vin, !.loc.matvecs = @ + 1,
                  !.plan.alpha = [i \in 1..s.self.n |->
                                     CMPLX(s.loc.d_invsqrt[i] * vin[i], 0)]]
        s2 == fastsum_trafo(s1)
    IN  [s2 EXCEPT !.loc.workd_out =
            [i \in 1..s.self.n |->
                vin[i] + s2.loc.d_invsqrt[i]
                         * (CREAL(s2.plan.f[i])
                            + (s2.self.diagonal - 1) * CREAL(s2.plan.alpha[i]))]]

\* One "apply operator" request: vin is the vector the solver hands over.
eigs_matvec(s, ido, vin) ==
    LET s1 == [SolverCall(s, "dsaupd_c", 0) EXCEPT
                  !.loc.ido = ido, !.loc.workd_in = vin, !.loc.matvecs = @ + 1,
                  !.plan.alpha = [i \in 1..s.self.n |->
                                     CMPLX(s.loc.d_invsqrt[i] * vin[i], 0)]]
        s2 == fastsum_trafo(s1)
        k  == s2.self.kernel
        f  == s2.plan.f
        alpha == s2.plan.alpha
        diagonal == s2.self.diagonal
        d_invsqrt == s2.loc.d_invsqrt
    IN  [s2 EXCEPT !.loc.workd_out =
            [i \in 1..s.self.n |->
                IF k = 1
                THEN vin[i] + d_invsqrt[i] * (CREAL(f[i]) + (diagonal - 1) * CREAL(alpha[i]))
                ELSE IF k = 2
                THEN vin[i] + d_invsqrt[i] * (CREAL(f[i]) + diagonal * CREAL(alpha[i]))
                ELSE IF k = 3
                THEN vin[i] + d_invsqrt[i] * (CREAL(f[i]) + (diagonal - 1) * CREAL(alpha[i]))
                ELSE vin[i] + d_invsqrt[i] * (CREAL(f[i]) + (diagonal - 1) * CREAL(alpha[i]))]]

\* The frees at the end with the one of select left out.
eigs_free_misses_select(s) ==
    LET s1 == free(free(free(free(free(free(s,
                  "d_invsqrt"), "resid"), "v"), "workd"), "workl"), "d")
    IN  [s1 EXCEPT !.loc = [NoLocals EXCEPT !.bufs = s1.loc.bufs]]

\* The frees at the end of normalized_eigs; its locals then go out of
\* scope.
eigs_free(s) ==
    LET s1 == free(free(free(free(free(free(free(s,
                  "d_invsqrt"), "resid"), "v"), "workd"), "workl"), "d"), "select")
    IN  [s1 EXCEPT !.loc = [NoLocals EXCEPT !.bufs = s1.loc.bufs]]

\* What normalized_eigs builds from the solver's output.
eigs_result(s) ==
    LET nn  == s.self.n
        nev == s.loc.nev
        d   == dseupd_values(nev)
        v   == dseupd_vectors(nn, s.loc.ncv)
        eigenvalues  == [j \in 1..nev |-> PyFloat(d[j] - 1)]
        eigenvectors == [k \in 1..(nn * nev) |->
                            PyFloat(v[((k - 1) % nev) * nn + ((k - 1) \div nev) + 1])]
    IN  IF s.loc.rvecs
        THEN [kind |-> "eigenpairs", shape |-> <<nn, nev>>,
              data |-> eigenvalues \o eigenvectors]
        ELSE [kind |-> "eigenvalues", shape |-> <<nev>>, data |-> eigenvalues]

\* The extraction phase with its status ignored.
eigs_extract_unchecked(s, info2) ==
    LET s1 == SolverCall(s, "dseupd_c", info2)
    IN  Return(s1, eigs_result(s1))

\* The extraction phase: info2 is the status dseupd reports.
eigs_extract(s, info2) ==
    LET s1 == SolverCall(s, "dseupd_c", info2)
    IN  IF info2 < 0
        THEN Return(Raise(s1, PyErrCode("RuntimeError", "ARPACK 'dseupd' failed", info2)), NULL)
        ELSE Return(s1, eigs_result(s1))

\* normalized_eigs extracting whatever the iteration reported.
eigs_finish_always_extracts(s, info, info2) ==
    LET s1 == [SolverCall(s, "dsaupd_c", info) EXCEPT !.loc.ido = IdoDone]
    IN  eigs_free(eigs_extract(s1, info2))

\* normalized_eigs dropping the points when the iteration failed.
eigs_finish_drops_points(s, info, info2) ==
    LET s1 == [SolverCall(s, "dsaupd_c", info) EXCEPT !.loc.ido = IdoDone]
        s2 == IF info < 0
              THEN Return(Raise(remove_points(s1),
                                PyErrCode("RuntimeError", "ARPACK 'dsaupd' failed", info)), NULL)
              ELSE eigs_extract(s1, info2)
    IN  eigs_free(s2)

\* The solver's step that ends the loop with status info, and the rest of
\* normalized_eigs.
eigs_finish(s, info, info2) ==
    LET s1 == [SolverCall(s, "dsaupd_c", info) EXCEPT !.loc.ido = IdoDone]
        s2 == IF info < 0
              THEN Return(Raise(s1, PyErrCode("RuntimeError", "ARPACK 'dsaupd' failed", info)), NULL)
              ELSE eigs_extract(s1, info2)
    IN  eigs_free(s2)

\* ------------------------------------------------------------ inputs
\* What malloc'ed storage may hold.
Garbage == {0, 5}

CtorArgs(kernels, ds, sigmas, Ns, NNs) ==
    { [ok |-> TRUE, kernel |-> k, d |-> dd, sigma |-> sg, N |-> nn,
       p |-> 4, m |-> 4, eps |-> 1, NN |-> nnn] :
        k \in kernels, dd \in ds, sg \in sigmas, nn \in Ns, nnn \in NNs }

BadCtorArgs ==
    [ok |-> FALSE, kernel |-> 0, d |-> 0, sigma |-> 0, N |-> 0,
     p |-> 0, m |-> 0, eps |-> 0, NN |-> 0]

\* Kernel selectors: the three the code names and one it does not.
Kernels == {1, 2, 3, 7}

\* Expansion degrees: small ones, and the ones around which 2*N and the
\* doubling of NN leave the range of an int.
Degrees == {-2, 0, 1, 3, 4, IntHalf \div 2, IntHalf \div 2 + 1, IntHalf, INT_MAX}

\* Every construction, valid or not.
AllCtorArgs ==
    CtorArgs(Kernels, {-1, 0, 1, 2}, {-1, 0, 1}, Degrees, {0, 16}) \cup {BadCtorArgs}

\* Tables handed to the points setter: None, an object that is no array,
\* a vector, and every table of 0..MaxRows rows and cols columns over items.
PointArgs(cols, items) ==
    {PyNone, PyBadObject}
    \cup ArraysOver(<<1>>, items)
    \cup UNION {ArraysOver(<<r, cols>>, items) : r \in 0..MaxRows}

\* Tables of one shape each: k rows of alternating -1.0 and 2, and one with
\* a non-numeric entry.
AlternatingTable(k) ==
    PyArray(<<k, 1>>, [i \in 1..k |-> IF i % 2 = 1 THEN PyFloat(-1) ELSE PyLong(2)])
FewPoints ==
    {PyNone, PyArray(<<1, 1>>, <<PyStr>>)}
    \cup {AlternatingTable(k) : k \in 1..MaxRows}

\* Weights handed to apply: an object that is no array, a 1x1 table, and
\* every vector of 0..MaxRows entries over items.
WeightArgs(items) ==
    {PyBadObject}
    \cup ArraysOver(<<1, 1>>, {PyLong(2)})
    \cup UNION {ArraysOver(<<k>>, items) : k \in 0..MaxRows}

EigsArgs ==
    { [ok |-> TRUE, nev |-> nev, ncv |-> ncv, maxiter |-> 0, rvecs |-> rv] :
        nev \in {1, 10}, ncv \in {0, 2}, rv \in BOOLEAN }
    \cup {[ok |-> FALSE, nev |-> 0, ncv |-> 0, maxiter |-> 0, rvecs |-> FALSE]}

\* Vectors the solver asks the operator to be applied to.
SolverVectors(nn) == [1..nn -> {1, 2}]

\* ------------------------------------------------------------ actions
\* stale: what the weight buffer held when the operation began; again:
\* the operation before it was the same one on the same argument and
\* returned without an error.
Result(op, arg, exact, s) ==
    [op |-> op, arg |-> arg, exact |-> exact,
     err |-> s.err, ret |-> s.ret, calls |-> s.calls, infos |-> s.infos,
     live |-> s.loc.bufs, mem |-> s.mem, stale |-> plan.alpha,
     again |-> (res.op = op /\ res.arg = arg /\ res.err = NoError)]

Current == Bundle(self, plan, heap, loc)

Commit(s) ==
    /\ self' = s.self
    /\ plan' = s.plan
    /\ heap' = s.heap
    /\ loc' = s.loc

Init ==
    /\ self = NewObject
    /\ plan = NoPlan
    /\ heap = NewHeap
    /\ loc = NoLocals
    /\ pc = "new"
    /\ res = [op |-> "none", arg |-> PyNone, exact |-> FALSE, err |-> NoError,
               ret |-> NULL, calls |-> <<>>, infos |-> <<>>, live |-> {}, mem |-> <<>>,
               stale |-> <<>>, again |-> FALSE]

\* tp_init; an object whose init failed is never handed to the caller.
Construct(a, ub) ==
    /\ pc = "new"
    /\ LET s == AdjacencyCore_init(Current, a, ub)
       IN  /\ Commit(s)
           /\ res' = Result("init", a, FALSE, s)
           /\ pc' = IF s.ret = PyInt(0) THEN "idle"
                    ELSE IF s.ret = PyInt(-1) THEN "failed"
                    ELSE "stuck"

\* tp_dealloc, when the last reference goes.
Dealloc ==
    /\ pc \in {"idle", "failed"}
    /\ LET s == AdjacencyCore_dealloc(Current)
       IN  /\ Commit(s)
           /\ res' = Result("dealloc", PyNone, FALSE, s)
           /\ pc' = "dead"

\* The writable member diagonal.
SetDiagonal(v) ==
    /\ pc = "idle"
    /\ self' = [self EXCEPT !.diagonal = v]
    /\ res' = Result("diagonal", PyNone, FALSE, Current)
    /\ UNCHANGED <<plan, heap, loc, pc>>

GetPoints ==
    /\ pc = "idle"
    /\ LET s == AdjacencyCore_getpoints(Current)
       IN  /\ Commit(s)
           /\ res' = Result("getpoints", PyNone, FALSE, s)
    /\ UNCHANGED pc

SetPoints(arg, g) ==
    /\ pc = "idle"
    /\ LET s == AdjacencyCore_setpoints(Current, arg, g)
       IN  /\ Commit(s)
           /\ res' = Result("setpoints", arg, FALSE, s)
    /\ UNCHANGED pc

Apply(arg, exact) ==
    /\ pc = "idle"
    /\ LET s == AdjacencyCore_apply(Current, arg, exact)
       IN  /\ Commit(s)
           /\ res' = Result("apply", arg, exact, s)
    /\ UNCHANGED pc

\* normalized_eigs from its entry to the solver loop; it returns at once
\* when it raises.
EigsCall(a) ==
    /\ pc = "idle"
    /\ LET s == eigs_begin(Current, a)
       IN  /\ Commit(s)
           /\ res' = Result("normalized_eigs", a, FALSE, s)
           /\ pc' = IF s.err = NoError THEN "eigs" ELSE "idle"

\* One turn of the loop in which the solver asks for the operator.
EigsIterate(ido, vin) ==
    /\ pc = "eigs"
    /\ dsaupd_accepts(self.n, loc.nev, loc.ncv)
    /\ loc.matvecs < MaxMatVec
    /\ LET s == eigs_matvec([Current EXCEPT !.calls = res.calls, !.infos = res.infos, !.mem = res.mem], ido, vin)
       IN  /\ Commit(s)
           /\ res' = Result("normalized_eigs", res.arg, FALSE, s)
    /\ UNCHANGED pc

\* The turn in which the solver ends the loop, and the return.
EigsFinish(info, info2) ==
    /\ pc = "eigs"
    /\ dsaupd_accepts(self.n, loc.nev, loc.ncv) \/ info = DsaupdRejected
    /\ LET s == eigs_finish([Current EXCEPT !.calls = res.calls, !.infos = res.infos, !.mem = res.mem], info, info2)
       IN  /\ Commit(s)
           /\ res' = Result("normalized_eigs", res.arg, FALSE, s)
           /\ pc' = "idle"

\* The steps of the object, normalized_eigs left out, for inputs drawn from
\* the sets of I.
NextBasic(I) ==
    \/ \E a \in I.ctor, ub \in IntOverflow : Construct(a, ub)
    \/ Dealloc
    \/ \E v \in I.diagonals : SetDiagonal(v)
    \/ GetPoints
    \/ \E arg \in I.points, g \in I.garbage : SetPoints(arg, g)
    \/ \E arg \in I.weights, exact \in BOOLEAN : Apply(arg, exact)

\* All steps of the object.
NextOf(I) ==
    \/ NextBasic(I)
    \/ \E a \in I.eigs : EigsCall(a)
    \/ \E ido \in IdoRequests, vin \in SolverVectors(self.n) : EigsIterate(ido, vin)
    \/ \E info \in DsaupdInfos \cup {DsaupdRejected}, info2 \in DseupdInfos :
          EigsFinish(info, info2)

\* A few well-formed and malformed inputs of each operation.
FewWeights ==
    {PyBadObject, PyArray(<<1>>, <<PyLong(2)>>), PyArray(<<2>>, <<PyFloat(-1), PyLong(2)>>)}
FewEigs ==
    {[ok |-> TRUE, nev |-> 1, ncv |-> 2, maxiter |-> 0, rvecs |-> TRUE]}

\* The life cycle: every one-column table for the points, and two tables
\* of two columns.
LifeInputs ==
    [ctor |-> CtorArgs({1}, {1}, {1}, {3}, {0}) \cup {BadCtorArgs},
     diagonals |-> {3}, garbage |-> Garbage,
     points |-> PointArgs(1, Items) \cup ArraysOver(<<1, 2>>, {PyLong(2)})
                \cup ArraysOver(<<0, 2>>, {PyLong(2)}),
     weights |-> FewWeights, eigs |-> FewEigs]
Next == NextOf(LifeInputs)
Spec == Init /\ [][Next]_vars

\* Tables of two columns: where each entry of a table goes.
TableInputs ==
    [ctor |-> CtorArgs({1}, {2}, {1}, {3}, {0}),
     diagonals |-> {3}, garbage |-> {5},
     points |-> PointArgs(2, {PyFloat(-1), PyLong(2)}),
     weights |-> FewWeights, eigs |-> {}]
NextTable == NextBasic(TableInputs)
SpecTable == Init /\ [][NextTable]_vars

\* Apply: every kernel selector and every numeric weight vector.
ApplyInputs ==
    [ctor |-> CtorArgs(Kernels, {1}, {1}, {3}, {0}),
     diagonals |-> {3}, points |-> FewPoints, garbage |-> {5},
     weights |-> WeightArgs({PyFloat(-1), PyLong(2)}), eigs |-> {}]
NextApply == NextBasic(ApplyInputs)
SpecApply == Init /\ [][NextApply]_vars

\* Apply: every weight argument, well-formed or not, under one kernel.
WeightInputs ==
    [ctor |-> CtorArgs({2}, {1}, {1}, {3}, {0}),
     diagonals |-> {3}, points |-> FewPoints, garbage |-> Garbage,
     weights |-> WeightArgs(Items), eigs |-> {}]
NextWeights == NextBasic(WeightInputs)
SpecWeights == Init /\ [][NextWeights]_vars

\* The eigensolver: every argument tuple of normalized_eigs.
EigsInputs ==
    [ctor |-> CtorArgs({1, 2}, {1}, {1}, {3}, {0}),
     diagonals |-> {3}, points |-> FewPoints, garbage |-> {5},
     weights |-> FewWeights, eigs |-> EigsArgs]
NextEigs == NextOf(EigsInputs)
SpecEigs == Init /\ [][NextEigs]_vars

\* Histories: applies that succeed and fail and calls of the solver, in
\* any order, on the same points.
HistoryInputs ==
    [ctor |-> CtorArgs({1, 2}, {1}, {1}, {3}, {0}),
     diagonals |-> {3}, points |-> FewPoints, garbage |-> Garbage,
     weights |-> FewWeights \cup {PyArray(<<2>>, <<PyLong(2), PyStr>>)},
     eigs |-> FewEigs \cup {[ok |-> FALSE, nev |-> 0, ncv |-> 0, maxiter |-> 0,
                              rvecs |-> FALSE]}]
NextHistory == NextOf(HistoryInputs)
SpecHistory == Init /\ [][NextHistory]_vars

\* The solver loop under every kernel selector.
DegreeInputs ==
    [ctor |-> CtorArgs(Kernels, {1}, {1}, {3}, {0}),
     diagonals |-> {3}, points |-> FewPoints, garbage |-> {5},
     weights |-> FewWeights, eigs |-> FewEigs]
NextDegrees == NextOf(DegreeInputs)
SpecDegrees == Init /\ [][NextDegrees]_vars

\* Construction alone, over every argument tuple.
NextCtor ==
    \/ \E a \in AllCtorArgs, ub \in IntOverflow : Construct(a, ub)
    \/ Dealloc

SpecCtor == Init /\ [][NextCtor]_vars

\* ------------------------------------------------------------ claims
IsNumber(item) == item.t \in {"float", "int"}
Calls(name) == {k \in 1..Len(res.calls) : res.calls[k] = name}

\* C1: in every state the operator's n is the number of source nodes and
\* the number of target nodes bound in the plan; n > 0 exactly when nodes
\* are bound.
C1_NIsBoundNodeCount ==
    /\ self.n = plan.src
    /\ self.n = plan.tgt
    /\ (self.n > 0) <=> (plan.src > 0 /\ plan.tgt > 0 /\ plan.x # <<>>)

\* A setpoints that bound two nodes over an earlier binding and rolled
\* them back on a non-numeric entry.
C1_Witness ==
    /\ res.op = "setpoints"
    /\ res.err.type = "TypeError"
    /\ Calls("fastsum_init_guru_source_nodes") # {}
    /\ Calls("fastsum_finalize_source_nodes") = {2, 6}
    /\ self.n = 0

\* A table the points setter must refuse for an operator of dimension d:
\* no array, not of rank 2, not of d columns, or with a non-numeric entry.
PointsMalformed(arg, dd) ==
    \/ arg.kind = "object"
    \/ /\ arg.kind = "array"
       /\ \/ Len(arg.shape) # 2
          \/ arg.shape[2] # dd
          \/ \E k \in 1..Len(arg.data) : ~IsNumber(arg.data[k])

\* C2: a setpoints that fails validation signals an error and leaves the
\* operator disabled: n = 0, no nodes bound, no coordinates kept, and
\* getpoints returning None.
C2_FailedSetPointsDisables ==
    (res.op = "setpoints" /\ PointsMalformed(res.arg, self.d)) =>
        /\ res.err.type \in {"TypeError", "ValueError"}
        /\ res.ret = PyInt(-1)
        /\ self.n = 0
        /\ plan.src = 0 /\ plan.tgt = 0
        /\ plan.x = <<>> /\ plan.y = <<>>
        /\ AdjacencyCore_getpoints(Current).ret = PyNone

\* A two-row table with a non-numeric entry, set over bound points.
C2_Witness ==
    /\ res.op = "setpoints"
    /\ res.arg.shape = <<2, 1>>
    /\ \E k \in 1..2 : ~IsNumber(res.arg.data[k])
    /\ Calls("fastsum_finalize_source_nodes") = {2, 6}
    /\ res.err.type = "TypeError"

\* C3: apply and normalized_eigs called while n = 0 raise, return nothing,
\* call neither the engine nor the solver, and change nothing.
C3_NoPointsIsAnError ==
    [][ (pc = "idle" /\ self.n = 0 /\ res'.op \in {"apply", "normalized_eigs"}) =>
           /\ res'.err.type = "RuntimeError"
           /\ res'.ret = NULL
           /\ res'.calls = <<>>
           /\ self' = self /\ plan' = plan /\ heap' = heap /\ loc' = loc
           /\ pc' = "idle" ]_vars

\* An apply refused after a setpoints that failed.
C3_Witness ==
    /\ res.op = "apply"
    /\ res.arg \in ArraysOfShape(<<1>>)
    /\ self.n = 0
    /\ res.err.type = "RuntimeError"

\* Two tables are equal: same shape, same value at every place.
TableEqual(a, b) ==
    /\ a.kind = "array" /\ b.kind = "array"
    /\ a.shape = b.shape
    /\ Len(a.data) = Len(b.data)
    /\ \A k \in 1..Len(a.data) : a.data[k].v = b.data[k].v

\* C4: after setpoints with a numeric table P of k > 0 rows and d columns,
\* n = k and getpoints returns a table equal to P.
C4_GetPointsReturnsWhatWasSet ==
    (/\ res.op = "setpoints"
     /\ ~PointsMalformed(res.arg, self.d)
     /\ res.arg.kind = "array"
     /\ res.arg.shape[1] > 0) =>
        /\ res.err = NoError
        /\ self.n = res.arg.shape[1]
        /\ TableEqual(AdjacencyCore_getpoints(Current).ret, res.arg)

\* A 2x2 table whose off-diagonal entries differ, set over bound points.
C4_Witness ==
    /\ res.op = "setpoints"
    /\ res.arg.shape = <<2, 2>>
    /\ res.arg.data[2].v # res.arg.data[3].v
    /\ Calls("fastsum_finalize_source_nodes") = {2}
    /\ res.err = NoError
    /\ self.n = 2

\* The correction the diagonal asks for, by kernel selector.
C5_Correction(kernel, diagonal, weight) ==
    IF kernel = 2 THEN diagonal * weight ELSE (diagonal - 1) * weight

\* C5: for every kernel selector a successful apply has called one
\* transform and returns n values, value i being the real part of the
\* engine's sum i plus the correction for weight i.
C5_ApplyAddsDiagonalCorrection ==
    (res.op = "apply" /\ res.err = NoError) =>
        /\ res.ret.kind = "array"
        /\ res.ret.shape = <<self.n>>
        /\ Len(res.ret.data) = self.n
        /\ res.calls = <<IF res.exact THEN "fastsum_exact" ELSE "fastsum_trafo">>
        /\ \A i \in 1..self.n :
              res.ret.data[i].v =
                  CREAL(plan.f[i])
                  + C5_Correction(self.kernel, self.diagonal, res.arg.data[i].v)

\* An apply on two points under a selector the code does not name, with a
\* diagonal other than 0 and 1.
C5_Witness ==
    /\ res.op = "apply"
    /\ res.err = NoError
    /\ self.kernel = 7
    /\ self.diagonal = 3
    /\ self.n = 2
    /\ res.ret.shape = <<2>>

\* Weights apply must refuse on n points: not a vector, not of n entries,
\* or with a non-numeric entry.
WeightsMalformed(arg, nn) ==
    /\ arg.kind = "array"
    /\ \/ Len(arg.shape) # 1
       \/ arg.shape[1] # nn
       \/ \E k \in 1..Len(arg.data) : ~IsNumber(arg.data[k])

WeightsNotNumeric(arg, nn) ==
    /\ arg.kind = "array"
    /\ arg.shape = <<nn>>
    /\ \E k \in 1..Len(arg.data) : ~IsNumber(arg.data[k])

\* C6 as stated: an apply on malformed weights raises, returns nothing,
\* calls no transform and leaves the operator and the whole plan, the
\* weight buffer included, as they were.
C6_MalformedWeightsChangeNothing ==
    [][ (pc = "idle" /\ self.n > 0 /\ res'.op = "apply"
         /\ WeightsMalformed(res'.arg, self.n)) =>
           /\ res'.err.type \in {"TypeError", "ValueError"}
           /\ res'.ret = NULL
           /\ res'.calls = <<>>
           /\ self' = self /\ plan' = plan /\ heap' = heap ]_vars

\* C6 amended: the same, but when the weights are a vector of n entries
\* with a non-numeric one, the weight buffer holds the converted entries,
\* -1.0 for each that failed.
C6_MalformedWeightsKeepPoints ==
    [][ (pc = "idle" /\ self.n > 0 /\ res'.op = "apply"
         /\ WeightsMalformed(res'.arg, self.n)) =>
           /\ res'.err.type \in {"TypeError", "ValueError"}
           /\ res'.ret = NULL
           /\ res'.calls = <<>>
           /\ self' = self /\ heap' = heap
           /\ IF WeightsNotNumeric(res'.arg, self.n)
              THEN plan' = [plan EXCEPT !.alpha =
                              [i \in 1..self.n |->
                                  CMPLX(IF IsNumber(res'.arg.data[i])
                                        THEN res'.arg.data[i].v ELSE -1, 0)]]
              ELSE plan' = plan ]_vars

\* An apply on two points refused for a non-numeric weight.
C6_Witness ==
    /\ res.op = "apply"
    /\ self.n = 2
    /\ WeightsNotNumeric(res.arg, 2)
    /\ res.err.type = "TypeError"
    /\ res.ret = NULL

\* C7: no engine resource is misused (nothing bound twice, released while
\* unbound, or freed with a binding live); a constructed operator holds one
\* plan; a destroyed one holds nothing, its plan freed once; and dealloc
\* releases the nodes bound, then the kernel, then the plan.
C7_ResourcesReleasedOnce ==
    [][ /\ heap'.faults = {}
        /\ pc' \in {"idle", "eigs"} => (heap'.allocs = 1 /\ heap'.frees = 0)
        /\ pc' = "failed" => (heap'.allocs = 0 /\ heap'.frees = 0)
        /\ pc' = "dead" =>
              /\ heap'.frees = heap'.allocs
              /\ plan'.src = 0 /\ plan'.tgt = 0 /\ plan'.kern = "none"
              /\ ~self'.fastsum
        /\ (pc = "idle" /\ pc' = "dead") =>
              /\ heap'.allocs = 1
              /\ IF plan.src > 0 \/ plan.tgt > 0
                 THEN /\ Len(res'.calls) = 4
                      /\ {res'.calls[1], res'.calls[2]} =
                            {"fastsum_finalize_target_nodes", "fastsum_finalize_source_nodes"}
                      /\ SubSeq(res'.calls, 3, 4) = <<"fastsum_finalize_kernel", "nfft_free">>
                 ELSE res'.calls = <<"fastsum_finalize_kernel", "nfft_free">> ]_vars

\* An operator destroyed with points bound.
C7_Witness ==
    /\ pc = "dead"
    /\ Len(res.calls) = 4
    /\ heap.frees = 1

\* C8 as stated: with ncv left unset and nev >= 1, the Krylov dimension
\* handed to the solver lies in nev < ncv <= n.
C8_DefaultNcvInRange ==
    (pc = "eigs" /\ res.arg.ncv <= 0 /\ res.arg.nev >= 1) =>
        (loc.nev < loc.ncv /\ loc.ncv <= self.n)

\* The statuses of the two phases of the call that returned last: the
\* last one dsaupd reported, and the one dseupd reported if it was called.
IsSolverCall(c) == c \in {"dsaupd_c", "dseupd_c"}
SolverLog == SelectSeq(res.calls, IsSolverCall)
Phase(name) == {k \in 1..Len(SolverLog) : SolverLog[k] = name}
IterationStatus ==
    res.infos[CHOOSE k \in Phase("dsaupd_c") : \A j \in Phase("dsaupd_c") : j <= k]
Extracted == Phase("dseupd_c") # {}
ExtractionStatus == res.infos[CHOOSE k \in Phase("dseupd_c") : TRUE]

\* C9: a negative status of the iteration or of the extraction phase
\* raises an error naming the phase and the code and returns nothing; a
\* result is returned only when both statuses are non-negative.
C9_SolverFailureReturnsNothing ==
    (res.op = "normalized_eigs" /\ pc = "idle" /\ Calls("dsaupd_c") # {}) =>
        /\ IterationStatus < 0 =>
              /\ res.err = PyErrCode("RuntimeError", "ARPACK 'dsaupd' failed", IterationStatus)
              /\ res.ret = NULL
        /\ (IterationStatus >= 0 /\ Extracted /\ ExtractionStatus < 0) =>
              /\ res.err = PyErrCode("RuntimeError", "ARPACK 'dseupd' failed", ExtractionStatus)
              /\ res.ret = NULL
        /\ res.ret # NULL =>
              (IterationStatus >= 0 /\ Extracted /\ ExtractionStatus >= 0 /\ res.err = NoError)

\* A call whose iteration converged after a request and whose extraction
\* failed.
C9_Witness ==
    /\ res.op = "normalized_eigs"
    /\ pc = "idle"
    /\ Len(res.infos) >= 2
    /\ Extracted
    /\ ExtractionStatus < 0
    /\ res.ret = NULL

\* C10 as stated: an init with a non-positive d, sigma or N raises,
\* allocates no plan and yields no operator.
C10_BadConfigurationRefused ==
    (res.op = "init" /\ res.arg.ok
     /\ (res.arg.d <= 0 \/ res.arg.sigma <= 0 \/ res.arg.N <= 0)) =>
        /\ res.err # NoError
        /\ heap.allocs = 0
        /\ pc # "idle"

\* Powers of two an int can hold.
RECURSIVE Pow2(_)
Pow2(k) == IF k = 0 THEN 1 ELSE 2 * Pow2(k - 1)
IsPowerOfTwo(x) == \E k \in 0..30 : x = Pow2(k)

\* An init whose arguments parse, with N > 0 and NN left out.
DerivesNN == res.op = "init" /\ res.arg.ok /\ res.arg.N > 0 /\ res.arg.NN = 0

\* C11 as stated: for every N > 0 an int can hold, with NN left out, init
\* returns and the NN it derived is a power of two with 2*N <= NN < 4*N.
C11_DerivedNNInRange ==
    DerivesNN =>
        /\ pc = "idle"
        /\ IsPowerOfTwo(self.NN)
        /\ self.N <= self.NN \div 2
        /\ self.NN \div 4 < self.N

\* C12 as stated: the NN derived is the smallest power of two strictly
\* greater than 2*N: a power of two above 2*N whose half is not.
C12_DerivedNNStrictlyGreater ==
    (DerivesNN /\ pc = "idle") =>
        /\ IsPowerOfTwo(self.NN)
        /\ (self.NN - 1) \div 2 >= self.N
        /\ (self.NN \div 2) \div 2 <= self.N

\* C12 amended: for 0 < N <= 2^29 the NN derived is the smallest power of
\* two greater than or equal to 2*N: a power of two that is at least 2*N
\* and whose half is below 2*N.
C12_DerivedNNSmallestAtLeast ==
    (DerivesNN /\ res.arg.N <= IntHalf \div 2) =>
        /\ pc = "idle"
        /\ IsPowerOfTwo(self.NN)
        /\ self.NN >= 2 * self.N
        /\ self.NN \div 2 < 2 * self.N

\* An init with 2*N a power of two, which NN equals.
C12_Witness ==
    /\ DerivesNN
    /\ pc = "idle"
    /\ self.N = 4
    /\ self.NN = 8

\* A table without rows.
IsEmptyTable(arg) == arg.kind = "array" /\ Len(arg.shape) = 2 /\ arg.shape[1] = 0

\* The operator holds no points and reports none.
Disabled ==
    /\ self.n = 0
    /\ plan.src = 0 /\ plan.tgt = 0
    /\ plan.x = <<>> /\ plan.y = <<>>

BindingCalls ==
    Calls("fastsum_init_guru_source_nodes") \cup Calls("fastsum_init_guru_target_nodes")
    \cup Calls("fastsum_precompute")

\* C13 as stated: a setpoints with a table without rows, whatever its
\* number of columns, raises nothing, binds no nodes, precomputes nothing
\* and leaves n = 0.
C13_EmptyTableAcceptedAnyColumns ==
    (res.op = "setpoints" /\ IsEmptyTable(res.arg)) =>
        /\ res.err = NoError
        /\ res.ret = PyInt(0)
        /\ BindingCalls = {}
        /\ Disabled

\* C13 amended: a table without rows and with d columns is accepted like
\* None; one with another number of columns is refused by the check of the
\* shape with a TypeError; either way nothing is bound or precomputed and
\* n = 0.
C13_EmptyTableAcceptedWithDColumns ==
    (res.op = "setpoints" /\ IsEmptyTable(res.arg)) =>
        /\ IF res.arg.shape[2] = self.d
           THEN res.err = NoError /\ res.ret = PyInt(0)
           ELSE res.err.type = "TypeError" /\ res.ret = PyInt(-1)
        /\ BindingCalls = {}
        /\ Disabled

\* A table of no rows and d columns set over bound points.
C13_Witness ==
    /\ res.op = "setpoints"
    /\ res.arg.shape = <<0, 1>>
    /\ self.d = 1
    /\ Calls("fastsum_finalize_source_nodes") # {}
    /\ res.err = NoError
    /\ self.n = 0

\* C14: a setpoints with None, from any state, raises nothing and leaves
\* n = 0, no nodes bound, and getpoints returning None.
C14_SetNoneDisables ==
    (res.op = "setpoints" /\ res.arg = PyNone) =>
        /\ res.err = NoError
        /\ res.ret = PyInt(0)
        /\ BindingCalls = {}
        /\ Disabled
        /\ AdjacencyCore_getpoints(Current).ret = PyNone
        /\ AdjacencyCore_getpoints(Current).err = NoError

\* None set over two bound points, which it released.
C14_Witness ==
    /\ res.op = "setpoints"
    /\ res.arg = PyNone
    /\ res.calls = <<"fastsum_finalize_target_nodes", "fastsum_finalize_source_nodes">>
    /\ res.err = NoError
    /\ self.n = 0

\* An operator built anew with the configuration, the points and the
\* diagonal of the current one, its node storage holding g.
FreshOperator(g) ==
    LET cfg == [ok |-> TRUE, kernel |-> self.kernel, d |-> self.d,
                sigma |-> self.sigma, N |-> self.N, p |-> self.p, m |-> self.m,
                eps |-> self.eps, NN |-> self.NN]
        s0 == AdjacencyCore_init(Bundle(NewObject, NoPlan, NewHeap, NoLocals), cfg, "wrap")
        s1 == AdjacencyCore_setpoints(s0, AdjacencyCore_getpoints(Current).ret, g)
    IN  Bundle([s1.self EXCEPT !.diagonal = self.diagonal], s1.plan, s1.heap, s1.loc)

\* C15: a successful apply returns what an operator built anew with the
\* same configuration, points and diagonal returns for the same weights
\* and flag, whatever applies and solver calls came before and whatever
\* the weight buffer held.
C15_ApplyIgnoresHistory ==
    (res.op = "apply" /\ res.err = NoError) =>
        \A g \in Garbage :
            LET fresh == AdjacencyCore_apply(FreshOperator(g), res.arg, res.exact)
            IN  /\ fresh.err = NoError
                /\ fresh.ret = res.ret

\* A successful apply on two points whose weight buffer held what a failed
\* apply had left in it.
C15_Witness ==
    /\ res.op = "apply"
    /\ res.err = NoError
    /\ self.n = 2
    /\ res.stale = <<CMPLX(2, 0), CMPLX(-1, 0)>>
    /\ res.stale # plan.alpha

\* A successful apply on two points whose weight buffer held what the
\* solver loop had left in it.
C15_WitnessAfterEigs ==
    /\ res.op = "apply"
    /\ res.err = NoError
    /\ self.n = 2
    /\ res.stale \in {<<CMPLX(InvSqrt(a) * v, 0), CMPLX(InvSqrt(b) * w, 0)>> :
                         a, b \in 1..6, v, w \in {1, 2}}

\* C16: a step of apply or of normalized_eigs, succeeding or failing,
\* leaves every field of the operator (n, diagonal and the configuration),
\* the coordinates of the points, the binding of the nodes, the kernel and
\* the precomputation as they were; of the plan only the weight and the
\* result buffer may change.
C16_ApplyAndEigsKeepOperator ==
    [][ res'.op \in {"apply", "normalized_eigs"} =>
           /\ self' = self
           /\ plan'.x = plan.x /\ plan'.y = plan.y
           /\ plan'.src = plan.src /\ plan'.tgt = plan.tgt
           /\ plan'.d = plan.d /\ plan'.kern = plan.kern /\ plan'.pre = plan.pre
           /\ heap' = heap ]_vars

\* A solver call on two points that applied the operator twice and then
\* failed, the weight buffer rewritten.
C16_Witness ==
    /\ res.op = "normalized_eigs"
    /\ pc = "idle"
    /\ res.err.type = "RuntimeError"
    /\ Cardinality(Calls("fastsum_trafo")) = 3
    /\ self.n = 2
    /\ self.diagonal = 3
    /\ plan.alpha # <<CMPLX(1, 0), CMPLX(1, 0)>>

\* A table setpoints accepts and binds: numeric, of d columns, with rows.
IsPointTable(arg, dd) ==
    /\ arg.kind = "array"
    /\ ~PointsMalformed(arg, dd)
    /\ arg.shape[1] > 0

\* C17: a setpoints with a valid table P of at least one row that follows
\* a setpoints with the same P releases the binding of the first, then
\* binds and precomputes anew, and leaves what can be observed as the
\* first left it: the object's fields (n and diagonal among them), the
\* coordinates getpoints returns, the nodes bound and precomputed.
C17_SetPointsTwiceIsOnce ==
    [][ (/\ res.op = "setpoints" /\ res.err = NoError
         /\ res'.op = "setpoints" /\ res'.arg = res.arg
         /\ IsPointTable(res.arg, self.d)) =>
           /\ res'.err = NoError
           /\ res'.calls = <<"fastsum_finalize_target_nodes", "fastsum_finalize_source_nodes",
                             "fastsum_init_guru_source_nodes", "fastsum_init_guru_target_nodes",
                             "fastsum_precompute">>
           /\ heap' = heap
           /\ self' = self
           /\ AdjacencyCore_getpoints(Bundle(self', plan', heap', loc')).ret
                 = AdjacencyCore_getpoints(Current).ret
           /\ plan'.x = plan.x /\ plan'.y = plan.y
           /\ plan'.src = plan.src /\ plan'.tgt = plan.tgt
           /\ plan'.pre /\ plan.pre ]_vars

\* A table of two rows and two columns set a second time.
C17_Witness ==
    /\ res.op = "setpoints"
    /\ res.again
    /\ res.arg.shape = <<2, 2>>
    /\ res.err = NoError
    /\ self.n = 2
    /\ plan.pre

\* C18: in a call of normalized_eigs that reached the solver, the log of
\* engine and solver calls is the transform of the degree computation,
\* then the iteration step and one approximate transform in turn, the
\* result written back after each, then one last iteration step that ends
\* the loop, then the extraction, once, exactly when the iteration's last
\* status was not negative.
C18_SolverAndCoreAlternate ==
    (res.op = "normalized_eigs" /\ res.calls # <<>>) =>
        LET m == Cardinality(Calls("dsaupd_c"))
            X == Calls("dseupd_c")
        IN  /\ Calls("dsaupd_c") = {2 * k : k \in 1..m}
            /\ Calls("fastsum_exact") = {}
            /\ pc = "eigs" =>
                  /\ Calls("fastsum_trafo") = {2 * k + 1 : k \in 0..m}
                  /\ Len(res.calls) = 2 * m + 1
                  /\ X = {}
                  /\ loc.matvecs = m
                  /\ m > 0 => (loc.ido \in IdoRequests /\ Len(loc.workd_out) = self.n)
            /\ pc = "idle" =>
                  /\ m >= 1
                  /\ Calls("fastsum_trafo") = {2 * k + 1 : k \in 0..(m - 1)}
                  /\ X \subseteq {2 * m + 1}
                  /\ Len(res.calls) = 2 * m + Cardinality(X)
                  /\ (X # {}) <=> (IterationStatus >= 0)

\* A call in which the solver asked for the operator twice, converged, and
\* had its eigenvectors extracted.
C18_Witness ==
    /\ res.op = "normalized_eigs"
    /\ pc = "idle"
    /\ Cardinality(Calls("dsaupd_c")) = 3
    /\ Cardinality(Calls("fastsum_trafo")) = 3
    /\ Calls("dseupd_c") = {7}
    /\ res.err = NoError

\* The engine calls of a setpoints, in the orders that release an old
\* binding before a new one is made and precompute after the binding.
Release == <<"fastsum_finalize_target_nodes", "fastsum_finalize_source_nodes">>
Bind == <<"fastsum_init_guru_source_nodes", "fastsum_init_guru_target_nodes">>
SetPointsOrders ==
    {<<>>, Release,
     Bind \o <<"fastsum_precompute">>, Release \o Bind \o <<"fastsum_precompute">>,
     Bind \o Release, Release \o Bind \o Release}

\* C19: no transform runs without bound nodes or, if approximate, without
\* a precomputation since they were bound; a setpoints releases the old
\* binding before it makes the new one and precomputes after it; and
\* between operations n > 0 only with both kinds of nodes bound, filled
\* with the coordinates given, and precomputed.
C19_TransformsOnPrecomputedNodes ==
    /\ heap.faults = {}
    /\ res.op = "setpoints" => res.calls \in SetPointsOrders
    /\ (res.op \in {"apply", "normalized_eigs"}
        /\ Calls("fastsum_trafo") \cup Calls("fastsum_exact") # {}) =>
           (self.n > 0 /\ plan.pre)
    /\ self.n > 0 =>
           /\ plan.pre
           /\ plan.src = self.n /\ plan.tgt = self.n
           /\ Len(plan.x) = self.n * self.d
           /\ plan.y = plan.x
           /\ \A k \in 1..Len(plan.x) : plan.x[k] \notin Garbage

\* The solver loop after its second transform, on two points bound over
\* earlier ones.
C19_Witness ==
    /\ res.op = "normalized_eigs"
    /\ pc = "eigs"
    /\ Calls("fastsum_trafo") = {1, 3}
    /\ self.n = 2
    /\ plan.pre
    /\ heap.faults = {}

\* What the public apply returns in the current state for the weights w,
\* approximate transform.
ApplyOf(w) ==
    AdjacencyCore_apply(Current, PyDoubleArray(<<self.n>>, w), FALSE).ret.data
Ones == [i \in 1..self.n |-> 1]
ScaledInput == [i \in 1..self.n |-> loc.d_invsqrt[i] * loc.workd_in[i]]

\* C20: for every kernel selector, during a call of normalized_eigs the
\* scaling it computed is 1/sqrt of what apply returns for all-ones
\* weights, and after each request the vector written back is
\* v[i] + d_invsqrt[i] * a[i], a being what apply returns for the weights
\* d_invsqrt[i] * v[i].
C20_EigsCorrectsLikeApply ==
    (pc = "eigs") =>
        /\ \A i \in 1..self.n : loc.d_invsqrt[i] = InvSqrt(ApplyOf(Ones)[i].v)
        /\ loc.matvecs > 0 =>
              \A i \in 1..self.n :
                  loc.workd_out[i] =
                      loc.workd_in[i] + loc.d_invsqrt[i] * ApplyOf(ScaledInput)[i].v

\* A request answered on two points under the squared-Gaussian selector,
\* with a diagonal other than 0 and 1 and weights that are not zero.
C20_Witness ==
    /\ pc = "eigs"
    /\ loc.matvecs > 0
    /\ self.kernel = 2
    /\ self.diagonal = 3
    /\ self.n = 2
    /\ \A i \in 1..2 : loc.d_invsqrt[i] * loc.workd_in[i] # 0

\* The working buffers of normalized_eigs, and how often each was
\* allocated and freed in the call that res describes.
EigsBuffers == {"d_invsqrt", "resid", "v", "workd", "workl", "d", "select"}
MemEvents(what, b) == {k \in 1..Len(res.mem) : res.mem[k] = <<what, b>>}

\* C21: a call of normalized_eigs that returns before the degree
\* computation (no points, or arguments that do not parse) has allocated
\* nothing; any other call has, when it returns, allocated each of its
\* seven working buffers once and freed it once, after allocating it,
\* whether it returns eigenvectors, eigenvalues only, or an error of the
\* iteration or of the extraction; inside the loop all seven are
\* allocated and none is freed.
C21_EigsBuffersFreedOnce ==
    /\ pc = "eigs" =>
          /\ loc.bufs = EigsBuffers
          /\ Len(res.mem) = 7
          /\ \A b \in EigsBuffers : Cardinality(MemEvents("malloc", b)) = 1
    /\ pc # "eigs" => loc.bufs = {}
    /\ (res.op = "normalized_eigs" /\ pc = "idle") =>
          /\ res.live = {}
          /\ IF res.calls = <<>>
             THEN res.mem = <<>> /\ res.err # NoError
             ELSE /\ Len(res.mem) = 14
                  /\ \A b \in EigsBuffers :
                        /\ Cardinality(MemEvents("malloc", b)) = 1
                        /\ Cardinality(MemEvents("free", b)) = 1
                        /\ \A i \in MemEvents("malloc", b), j \in MemEvents("free", b) : i < j

\* A call that applied the operator, had its iteration fail, and returned
\* with its buffers freed.
C21_Witness ==
    /\ res.op = "normalized_eigs"
    /\ pc = "idle"
    /\ res.err = PyErrCode("RuntimeError", "ARPACK 'dsaupd' failed", -9)
    /\ Cardinality(Calls("fastsum_trafo")) >= 2
    /\ Len(res.mem) = 14
    /\ res.live = {}

\* A call on an operator without points, returned with nothing allocated.
C21_WitnessEarlyExit ==
    /\ res.op = "normalized_eigs"
    /\ pc = "idle"
    /\ res.err.type = "RuntimeError"
    /\ res.calls = <<>>
    /\ res.mem = <<>>

====
